---- MODULE Spec2Model ----
(***************************************************************************)
(* Model of the projection engine of the Compound Growth Toolkit           *)
(* (src/src/lib/calc.ts): effectiveMonthlyRate,                            *)
(* effectiveMonthlyContribution and calculate, stepped one loop iteration  *)
(* at a time.                                                              *)
(*                                                                         *)
(* Number representation.  The engine computes in IEEE doubles; the model  *)
(* computes in fixed point over the integers:                              *)
(*   - an APR is an integer number of 1/AprScale (whole percent);          *)
(*   - a monthly rate is an integer number of 1/RateScale;                 *)
(*   - a money amount is an integer number of quanta, Unit quanta to one   *)
(*     currency unit.                                                      *)
(* Sums are exact.  A product amount * rate is rounded down to a whole     *)
(* quantum, as a double rounds every product to its precision.  Unit is a  *)
(* multiple of 12 * RateScale, so inputs entered in whole currency units   *)
(* convert to monthly contributions without loss and one month's interest  *)
(* on one contribution is at least a quantum.                              *)
(*                                                                         *)
(* The after-fees track and the inflation-adjusted outputs that the tests  *)
(* and the components read are layered on the nominal loop as the          *)
(* specification describes them.  Spec runs calculate over the nominal and *)
(* fee inputs, SpecReal over inputs with an inflationRate, SpecRate over   *)
(* one-month runs across a range of aprs.                                  *)
(***************************************************************************)
EXTENDS Integers, Sequences, FiniteSets, TLC

\* ---------------------------------------------------------------- bounds
MaxPrincipal == 1        \* principal in 0..MaxPrincipal currency units
MaxYears == 1            \* years in 0..MaxYears
MaxRateApr == 30         \* apr in 0..MaxRateApr percent, rate-conversion runs
MaxCalls == 3             \* invocations made one after another
MaxIds == 2               \* scenarios created in a session

\* ------------------------------------------------------------- constants
MonthsPerYear == 12
MaxExtraMonths == 11
AprScale == 100
RateScale == MonthsPerYear * AprScale
Unit == MonthsPerYear * RateScale
PowScale == 1000 * 1000

CompoundFrequency == {"daily", "monthly", "quarterly", "annual"}
ContributionFrequency == {"weekly", "monthly", "annual"}
ContributionTiming == {"start", "end"}

\* ------------------------------------------------- fixed-point arithmetic
\* a * b / PowScale rounded to nearest, without leaving 32 bits
\* (a, b < 1.4 * PowScale)
MulFix(a, b) ==
  (((a \div 1000) * b) + (((a % 1000) * b + 500) \div 1000) + 500) \div 1000

RECURSIVE PowFix(_, _)
\* Math.pow(x, n) for a whole exponent n, by repeated squaring
\* (h and sq are bound by singleton sets, so that each is computed once)
PowFix(x, n) ==
  IF n = 0 THEN PowScale
  ELSE CHOOSE p \in
         {IF n % 2 = 0 THEN sq ELSE MulFix(sq, x)
            : sq \in {MulFix(h, h) : h \in {PowFix(x, n \div 2)}}} : TRUE

RECURSIVE RootSearch(_, _, _, _)
\* the largest x in lo..hi with PowFix(x, n) <= v (bisection)
RootSearch(v, n, lo, hi) ==
  IF lo >= hi THEN lo
  ELSE LET mid == (lo + hi + 1) \div 2
       IN IF PowFix(mid, n) <= v
          THEN RootSearch(v, n, mid, hi)
          ELSE RootSearch(v, n, lo, mid - 1)

\* Math.pow(v, 1/n) for v >= 1; the root is at most 1 + (v - 1) / n
RootFix(v, n) == RootSearch(v, n, PowScale, PowScale + (v - PowScale) \div n + 1)

\* a growth factor minus one, as a monthly rate in units of 1/RateScale
ToRate(factor) == ((factor - PowScale) * RateScale) \div PowScale

\* ------------------------------------------------------------ rate helpers
\* mutant of effectiveMonthlyRate: a zero apr is taken as missing and
\* replaced by a default of 5 percent
effectiveMonthlyRateFalsyApr(apr, compound) ==
  LET a == IF apr = 0 THEN 5 ELSE apr
  IN CASE compound = "daily" ->
            ToRate(RootFix(PowFix(PowScale + (a * PowScale) \div (AprScale * 365), 365), 12))
       [] compound = "monthly" ->
            (a * RateScale) \div (AprScale * 12)
       [] compound = "quarterly" ->
            ToRate(RootFix(PowScale + (a * PowScale) \div (AprScale * 4), 3))
       [] compound = "annual" ->
            ToRate(RootFix(PowScale + (a * PowScale) \div AprScale, 12))

\* mutant of effectiveMonthlyRate: quarterly compounding takes the fourth
\* root of the quarterly factor instead of the cube root
effectiveMonthlyRateQuarterlyFourthRoot(apr, compound) ==
  IF apr = 0 THEN 0
  ELSE CASE compound = "daily" ->
              ToRate(RootFix(PowFix(PowScale + (apr * PowScale) \div (AprScale * 365), 365), 12))
         [] compound = "monthly" ->
              (apr * RateScale) \div (AprScale * 12)
         [] compound = "quarterly" ->
              ToRate(RootFix(PowScale + (apr * PowScale) \div (AprScale * 4), 4))
         [] compound = "annual" ->
              ToRate(RootFix(PowScale + (apr * PowScale) \div AprScale, 12))

\* mutant of effectiveMonthlyRate: annual compounding divides the apr by 12,
\* as monthly compounding does
effectiveMonthlyRateAnnualSimple(apr, compound) ==
  IF apr = 0 THEN 0
  ELSE CASE compound = "daily" ->
              ToRate(RootFix(PowFix(PowScale + (apr * PowScale) \div (AprScale * 365), 365), 12))
         [] compound = "monthly" ->
              (apr * RateScale) \div (AprScale * 12)
         [] compound = "quarterly" ->
              ToRate(RootFix(PowScale + (apr * PowScale) \div (AprScale * 4), 3))
         [] compound = "annual" ->
              (apr * RateScale) \div (AprScale * 12)

\* calc.ts effectiveMonthlyRate: apr in units of 1/AprScale, result in units
\* of 1/RateScale.  Math.pow(b, 365/12) is the 12th root of b^365.
effectiveMonthlyRate(apr, compound) ==
  IF apr = 0 THEN 0
  ELSE CASE compound = "daily" ->
              ToRate(RootFix(PowFix(PowScale + (apr * PowScale) \div (AprScale * 365), 365), 12))
         [] compound = "monthly" ->
              (apr * RateScale) \div (AprScale * 12)
         [] compound = "quarterly" ->
              ToRate(RootFix(PowScale + (apr * PowScale) \div (AprScale * 4), 3))
         [] compound = "annual" ->
              ToRate(RootFix(PowScale + (apr * PowScale) \div AprScale, 12))

\* mutant of effectiveMonthlyContribution: a month is taken as four weeks
effectiveMonthlyContributionFourWeeks(contribution, frequency) ==
  CASE frequency = "weekly" -> contribution * 4
    [] frequency = "monthly" -> contribution
    [] frequency = "annual" -> contribution \div 12

\* calc.ts effectiveMonthlyContribution, amounts in quanta
effectiveMonthlyContribution(contribution, frequency) ==
  CASE frequency = "weekly" -> (contribution * 52) \div 12
    [] frequency = "monthly" -> contribution
    [] frequency = "annual" -> contribution \div 12

\* ----------------------------------------------------------------- inputs
\* the input values drawn: contributions of 0 or 1 currency unit per period,
\* APRs of 0, 6 and 12 percent, 0, 1, 6 or 11 additional months
ContributionUnits == {0, 1}
AprPercents == {0, 6, 12}
ExtraMonths == {0, 1, 6, MaxExtraMonths}

\* the longest duration validation lets through, in months
MaxTotalMonths == 720

\* annualFeeRate is optional: <<>> when omitted, <<f>> for f percent a year
FeeOptions == {<<>>, <<0>>, <<1>>}
\* the optional inflationRate, in whole percent: <<>> when omitted
InflationOptions == {<<>>, <<0>>, <<2>>, <<4>>}

CalcInputs ==
  [principal : {p * Unit : p \in 0..MaxPrincipal},
   contribution : {c * Unit : c \in ContributionUnits},
   contributionFrequency : ContributionFrequency,
   apr : AprPercents,
   annualFeeRate : FeeOptions,
   inflationRate : {<<>>},
   compoundFrequency : CompoundFrequency,
   years : 0..MaxYears,
   months : ExtraMonths,
   timing : ContributionTiming]

\* the inputs of the one-month runs that exercise the rate conversion over a
\* range of aprs
RateCalcInputs ==
  [principal : {Unit},
   contribution : {0},
   contributionFrequency : {"monthly"},
   apr : 0..MaxRateApr,
   annualFeeRate : {<<>>},
   inflationRate : {<<>>},
   compoundFrequency : CompoundFrequency,
   years : {0},
   months : {1},
   timing : ContributionTiming]

\* the inputs of the runs that exercise the inflation-adjusted outputs
RealCalcInputs ==
  [principal : {p * Unit : p \in 0..MaxPrincipal},
   contribution : {c * Unit : c \in ContributionUnits},
   contributionFrequency : {"monthly", "annual"},
   apr : {0, 6},
   annualFeeRate : {<<>>, <<1>>},
   inflationRate : InflationOptions,
   compoundFrequency : {"monthly", "annual"},
   years : 0..MaxYears,
   months : ExtraMonths,
   timing : ContributionTiming]

\* the inputs of the short runs that are invoked one after another
SeqCalcInputs ==
  [principal : {Unit},
   contribution : {c * Unit : c \in ContributionUnits},
   contributionFrequency : {"monthly"},
   apr : {6},
   annualFeeRate : {<<>>},
   inflationRate : {<<>>},
   compoundFrequency : {"monthly"},
   years : {0},
   months : {1, 2},
   timing : ContributionTiming]

\* the durations, <<years, months>>, of the runs that exercise the loop bound:
\* the shortest, one past a year end, and the two longest
LongDurations ==
  {<<0, 1>>, <<1, 1>>,
   <<MaxTotalMonths \div MonthsPerYear - 1, MaxExtraMonths>>,
   <<MaxTotalMonths \div MonthsPerYear, 0>>}

\* the inputs of the runs that exercise the loop bound
LongCalcInputs ==
  {[principal |-> Unit,
    contribution |-> Unit,
    contributionFrequency |-> "monthly",
    apr |-> 6,
    annualFeeRate |-> <<>>,
    inflationRate |-> <<>>,
    compoundFrequency |-> "monthly",
    years |-> d[1],
    months |-> d[2],
    timing |-> t] : d \in LongDurations, t \in ContributionTiming}

NoInputs ==
  [principal |-> 0, contribution |-> 0, contributionFrequency |-> "monthly",
   apr |-> 0, annualFeeRate |-> <<>>, inflationRate |-> <<>>,
   compoundFrequency |-> "monthly",
   years |-> 0, months |-> 0, timing |-> "end"]

\* ------------------------------------------------------------------ state
VARIABLES
  pc,                      \* "idle", "loop", "aggregate", "done"
  inputs,                  \* the CalcInputs of the invocation
  totalMonths, monthlyRate, monthlyContrib,
  m,                       \* loop counter of the monthly loop
  balance, cumulativeContributions, cumulativeInterest,
  monthlyBreakdown,
  maxYear, y,              \* yearly aggregation loop
  yearlyBreakdown,
  balanceAfterFees, cumulativeFeesPaid, feeLedger,   \* after-fees track
  result,
  history,                 \* the calls that have returned: inputs and result
  form,                    \* the FormState
  parsed,                  \* the ParseResult of form: <<>> until it is validated
  scenarios,               \* the saved scenarios, each an id and its inputs
  compareIds, compareMode, \* the comparison selection and the compare switch
  validInputs,             \* <<>> for null, else <<the validated inputs>>
  nextId,                  \* the id createId returns next
  mounted,                 \* the mount effect has run
  rendered,                \* the component has rendered its current state
  caller                   \* the call site whose calculate is due or running

\* the state of the callers of calculate
formVars == <<form, parsed>>
appVars == <<scenarios, compareIds, compareMode, validInputs, nextId, mounted,
             rendered, caller>>
callerVars == <<history, formVars, appVars>>

\* the variables of an invocation of calculate
engineVars == <<pc, inputs, totalMonths, monthlyRate, monthlyContrib, m, balance,
                cumulativeContributions, cumulativeInterest, monthlyBreakdown,
                maxYear, y, yearlyBreakdown, balanceAfterFees, cumulativeFeesPaid,
                feeLedger, result>>

vars == <<pc, inputs, totalMonths, monthlyRate, monthlyContrib, m, balance,
          cumulativeContributions, cumulativeInterest, monthlyBreakdown,
          maxYear, y, yearlyBreakdown, balanceAfterFees, cumulativeFeesPaid,
          feeLedger, result, callerVars>>

NoResult ==
  [finalBalance |-> 0, totalContributions |-> 0, totalInterest |-> 0,
   finalBalanceAfterFees |-> 0, totalFeesPaidNominal |-> 0,
   finalBalanceReal |-> 0, totalContributionsReal |-> 0,
   totalInterestReal |-> 0, finalBalanceAfterFeesReal |-> 0,
   totalFeesPaidReal |-> 0,
   yearlyBreakdown |-> <<>>, monthlyBreakdown |-> <<>>]

\* --------------------------------------------------------- sequence helpers
Last(s) == s[Len(s)]

RECURSIVE SumOf(_, _)
\* rows.reduce((s, r) => s + r[field], 0)
SumOf(rows, field) ==
  IF rows = <<>> THEN 0
  ELSE SumOf(SubSeq(rows, 1, Len(rows) - 1), field) + Last(rows)[field]

\* mutant of YearOf: Math.floor(p / 12) + 1, which puts period 12 in year 2
YearOfFloorPlusOne(p) == p \div MonthsPerYear + 1

\* Math.ceil(p / 12)
YearOf(p) == IF p % MonthsPerYear = 0 THEN p \div MonthsPerYear ELSE p \div MonthsPerYear + 1

\* mutant of MonthOf: p % 12, which numbers December 0
MonthOfPlainModulo(p) == p % MonthsPerYear

\* ((p - 1) % 12) + 1
MonthOf(p) == ((p - 1) % MonthsPerYear) + 1

\* ------------------------------------------------------- one month's growth
\* balance * monthlyRate
InterestOn(bal, rate) == (bal * rate) \div RateScale

\* mutant of StartStep: the interest is recorded but never added to the balance
StartStepInterestNotAdded(bal, contrib, rate) ==
  LET afterContrib == bal + contrib
      periodInterest == InterestOn(afterContrib, rate)
  IN [balance |-> afterContrib,
      periodContrib |-> contrib,
      periodInterest |-> periodInterest]

\* mutant of StartStep: the interest is computed before the contribution is added
StartStepInterestFirst(bal, contrib, rate) ==
  LET periodInterest == InterestOn(bal, rate)
  IN [balance |-> bal + contrib + periodInterest,
      periodContrib |-> contrib,
      periodInterest |-> periodInterest]

\* timing = 'start': contribution first, interest on the increased balance
StartStep(bal, contrib, rate) ==
  LET afterContrib == bal + contrib
      periodInterest == InterestOn(afterContrib, rate)
  IN [balance |-> afterContrib + periodInterest,
      periodContrib |-> contrib,
      periodInterest |-> periodInterest]

\* mutant of EndStep: the contribution is recorded but never added to the balance
EndStepContribNotAdded(bal, contrib, rate) ==
  LET periodInterest == InterestOn(bal, rate)
      afterInterest == bal + periodInterest
  IN [balance |-> afterInterest,
      periodContrib |-> contrib,
      periodInterest |-> periodInterest]

\* mutant of EndStep: the contribution is added before the interest is computed
EndStepContribFirst(bal, contrib, rate) ==
  LET afterContrib == bal + contrib
      periodInterest == InterestOn(afterContrib, rate)
  IN [balance |-> afterContrib + periodInterest,
      periodContrib |-> contrib,
      periodInterest |-> periodInterest]

\* timing = 'end': interest on the current balance, then the contribution
EndStep(bal, contrib, rate) ==
  LET periodInterest == InterestOn(bal, rate)
      afterInterest == bal + periodInterest
  IN [balance |-> afterInterest + contrib,
      periodContrib |-> contrib,
      periodInterest |-> periodInterest]

\* mutant of PeriodStep: the timing is ignored, every month is an 'end' month
PeriodStepIgnoresTiming(bal, contrib, rate, timing) == EndStep(bal, contrib, rate)

\* the timing branch of one iteration
PeriodStep(bal, contrib, rate, timing) ==
  IF timing = "start" THEN StartStep(bal, contrib, rate)
  ELSE EndStep(bal, contrib, rate)

\* mutant of MonthlyRow: the cumulative columns hold the month's own amounts
MonthlyRowPeriodAsCumulative(p, startingBalance, step, cumContrib, cumInterest) ==
  [period |-> p,
   year |-> YearOf(p),
   month |-> MonthOf(p),
   startingBalance |-> startingBalance,
   contributions |-> step.periodContrib,
   interest |-> step.periodInterest,
   endingBalance |-> step.balance,
   cumulativeContributions |-> step.periodContrib,
   cumulativeInterest |-> step.periodInterest]

\* mutant of MonthlyRow: the period is recorded zero-based
MonthlyRowZeroBasedPeriod(p, startingBalance, step, cumContrib, cumInterest) ==
  [period |-> p - 1,
   year |-> YearOf(p),
   month |-> MonthOf(p),
   startingBalance |-> startingBalance,
   contributions |-> step.periodContrib,
   interest |-> step.periodInterest,
   endingBalance |-> step.balance,
   cumulativeContributions |-> cumContrib,
   cumulativeInterest |-> cumInterest]

\* the MonthlyBreakdown row pushed by iteration p
MonthlyRow(p, startingBalance, step, cumContrib, cumInterest) ==
  [period |-> p,
   year |-> YearOf(p),
   month |-> MonthOf(p),
   startingBalance |-> startingBalance,
   contributions |-> step.periodContrib,
   interest |-> step.periodInterest,
   endingBalance |-> step.balance,
   cumulativeContributions |-> cumContrib,
   cumulativeInterest |-> cumInterest]

RECURSIVE Simulate(_, _, _, _, _)
\* the monthly loop run for n iterations from balance = principal: the values
\* of balance, the two cumulative sums and monthlyBreakdown it leaves
Simulate(principal, contrib, rate, timing, n) ==
  IF n = 0
  THEN [balance |-> principal,
        cumulativeContributions |-> 0,
        cumulativeInterest |-> 0,
        monthlyBreakdown |-> <<>>]
  ELSE LET prev == Simulate(principal, contrib, rate, timing, n - 1)
           step == PeriodStep(prev.balance, contrib, rate, timing)
           cumContrib == prev.cumulativeContributions + step.periodContrib
           cumInterest == prev.cumulativeInterest + step.periodInterest
       IN [balance |-> step.balance,
           cumulativeContributions |-> cumContrib,
           cumulativeInterest |-> cumInterest,
           monthlyBreakdown |->
             Append(prev.monthlyBreakdown,
                    MonthlyRow(n, prev.balance, step, cumContrib, cumInterest))]

\* ----------------------------------------------------------- after-fees track
\* annualFeeRate ?? 0
FeeRateOf(in) == IF in.annualFeeRate = <<>> THEN 0 ELSE in.annualFeeRate[1]

\* the fee deducted from a grown after-fees balance: annualFeeRate / 12 of it
MonthlyFee(grown, feeRate) == (grown * feeRate) \div (AprScale * MonthsPerYear)

\* mutant of FeeStep: the fee is charged on the opening after-fees balance,
\* before the month's growth
FeeStepFeeBeforeGrowth(balAfterFees, contrib, rate, timing, feeRate, cumFees, p) ==
  LET fee == MonthlyFee(balAfterFees, feeRate)
      grown == PeriodStep(balAfterFees - fee, contrib, rate, timing).balance
  IN [year |-> YearOf(p),
      fee |-> fee,
      endingBalanceAfterFees |-> grown,
      cumulativeFeesPaid |-> cumFees + fee]

\* one month of the after-fees track: the same growth as the nominal track,
\* applied to the after-fees balance, then the fee
FeeStep(balAfterFees, contrib, rate, timing, feeRate, cumFees, p) ==
  LET grown == PeriodStep(balAfterFees, contrib, rate, timing).balance
      fee == MonthlyFee(grown, feeRate)
  IN [year |-> YearOf(p),
      fee |-> fee,
      endingBalanceAfterFees |-> grown - fee,
      cumulativeFeesPaid |-> cumFees + fee]

RECURSIVE FeeTrack(_, _, _, _, _, _)
\* the after-fees track run for n months from the principal: the after-fees
\* balance and the fees paid it leaves
FeeTrack(principal, contrib, rate, timing, feeRate, n) ==
  IF n = 0 THEN [balanceAfterFees |-> principal, cumulativeFeesPaid |-> 0]
  ELSE LET prev == FeeTrack(principal, contrib, rate, timing, feeRate, n - 1)
           step == FeeStep(prev.balanceAfterFees, contrib, rate, timing,
                           feeRate, prev.cumulativeFeesPaid, n)
       IN [balanceAfterFees |-> step.endingBalanceAfterFees,
           cumulativeFeesPaid |-> step.cumulativeFeesPaid]

\* ---------------------------------------------------------- yearly aggregation
\* monthlyBreakdown.filter((r) => r.year === yr)
RowsOfYear(rows, yr) ==
  LET InYear(r) == r.year = yr
  IN SelectSeq(rows, InYear)

\* mutant of YearlyRow: contributions and interest of the last month only
YearlyRowLastMonthOnly(yr, rows) ==
  [year |-> yr,
   startingBalance |-> rows[1].startingBalance,
   contributions |-> Last(rows).contributions,
   interest |-> Last(rows).interest,
   endingBalance |-> Last(rows).endingBalance,
   cumulativeContributions |-> Last(rows).cumulativeContributions,
   cumulativeInterest |-> Last(rows).cumulativeInterest]

\* mutant of YearlyRow: the ending balance of the year's first month
YearlyRowEndingOfFirstMonth(yr, rows) ==
  [year |-> yr,
   startingBalance |-> rows[1].startingBalance,
   contributions |-> SumOf(rows, "contributions"),
   interest |-> SumOf(rows, "interest"),
   endingBalance |-> rows[1].endingBalance,
   cumulativeContributions |-> Last(rows).cumulativeContributions,
   cumulativeInterest |-> Last(rows).cumulativeInterest]

\* mutant of YearlyRow: the year's own interest is reported as the running
\* total
YearlyRowYearInterestAsCumulative(yr, rows) ==
  [year |-> yr,
   startingBalance |-> rows[1].startingBalance,
   contributions |-> SumOf(rows, "contributions"),
   interest |-> SumOf(rows, "interest"),
   endingBalance |-> Last(rows).endingBalance,
   cumulativeContributions |-> Last(rows).cumulativeContributions,
   cumulativeInterest |-> SumOf(rows, "interest")]

\* the YearlyBreakdown row pushed for year yr from its monthly rows
YearlyRow(yr, rows) ==
  [year |-> yr,
   startingBalance |-> rows[1].startingBalance,
   contributions |-> SumOf(rows, "contributions"),
   interest |-> SumOf(rows, "interest"),
   endingBalance |-> Last(rows).endingBalance,
   cumulativeContributions |-> Last(rows).cumulativeContributions,
   cumulativeInterest |-> Last(rows).cumulativeInterest]

\* mutant of YearlyFeeFields: the year's own fees are reported as the running
\* total
YearlyFeeFieldsYearTotalAsCumulative(feeRows) ==
  [endingBalanceAfterFees |-> Last(feeRows).endingBalanceAfterFees,
   yearlyFeesPaid |-> SumOf(feeRows, "fee"),
   cumulativeFeesPaid |-> SumOf(feeRows, "fee")]

\* the after-fees fields of a yearly row, from the year's fee ledger entries
YearlyFeeFields(feeRows) ==
  [endingBalanceAfterFees |-> Last(feeRows).endingBalanceAfterFees,
   yearlyFeesPaid |-> SumOf(feeRows, "fee"),
   cumulativeFeesPaid |-> Last(feeRows).cumulativeFeesPaid]

\* ------------------------------------------------- inflation-adjusted layer
\* inflationRate ?? 0
InflationRateOf(in) == IF in.inflationRate = <<>> THEN 0 ELSE in.inflationRate[1]

\* (1 + inflationRate)^(months / 12) at PowScale: whole years by powers, the
\* months of a partial year by powers of the twelfth root
Discount(inflation, months) ==
  LET base == PowScale + (inflation * PowScale) \div AprScale
  IN MulFix(PowFix(base, months \div MonthsPerYear),
            PowFix(RootFix(base, MonthsPerYear), months % MonthsPerYear))

\* amount / (d / PowScale), by long division in three digits groups
DivFix(amount, d) ==
  LET q1 == amount \div d
      r1 == amount % d
      q2 == (r1 * 1000) \div d
      r2 == (r1 * 1000) % d
      q3 == (r2 * 1000) \div d
  IN q1 * PowScale + q2 * 1000 + q3

\* nominal / discount(t), t = months / 12 years
RealValue(nominal, inflation, months) ==
  CHOOSE v \in {DivFix(nominal, d) : d \in {Discount(inflation, months)}} : TRUE

\* the real fields of a yearly row, discounted at the year's last month
YearlyRealFields(rows, inflation) ==
  LET t == Last(rows).period
  IN [realEndingBalance |-> RealValue(Last(rows).endingBalance, inflation, t),
      realCumulativeContributions |->
        RealValue(Last(rows).cumulativeContributions, inflation, t),
      realCumulativeInterest |->
        RealValue(Last(rows).cumulativeInterest, inflation, t)]

\* ------------------------------------------------------ the validation layer
\* A text is the sequence of its characters.  A number read from a text is
\* kept exactly: a sign, the whole part and the decimals after the point
\* without trailing zeros; nan marks NaN.
Digits == <<"0", "1", "2", "3", "4", "5", "6", "7", "8", "9">>
IsDigit(c) == \E d \in 1..Len(Digits) : Digits[d] = c
DigitOf(c) == (CHOOSE d \in 1..Len(Digits) : Digits[d] = c) - 1
\* \s
IsSpace(c) == c = " "

RECURSIVE TrimStart(_)
TrimStart(text) ==
  IF text # <<>> /\ IsSpace(Head(text)) THEN TrimStart(Tail(text)) ELSE text

RECURSIVE TrimEnd(_)
TrimEnd(text) ==
  IF text # <<>> /\ IsSpace(Last(text))
  THEN TrimEnd(SubSeq(text, 1, Len(text) - 1))
  ELSE text

\* value.trim()
Trim(text) == TrimEnd(TrimStart(text))

NaN == [nan |-> TRUE, neg |-> FALSE, int |-> 0, frac |-> <<>>]

RECURSIVE WholeOf(_)
\* the value of a string of digits
WholeOf(ds) ==
  IF ds = <<>> THEN 0
  ELSE WholeOf(SubSeq(ds, 1, Len(ds) - 1)) * 10 + DigitOf(Last(ds))

RECURSIVE DecimalsOf(_)
\* the decimals of a string of digits after the point: .50 is .5
DecimalsOf(ds) ==
  IF ds = <<>> THEN <<>>
  ELSE IF Last(ds) = "0" THEN DecimalsOf(SubSeq(ds, 1, Len(ds) - 1))
  ELSE [i \in 1..Len(ds) |-> DigitOf(ds[i])]

\* the number with the given sign, whole part and decimals; -0 is 0
Decimal(neg, whole, decimals) ==
  [nan |-> FALSE,
   neg |-> neg /\ (whole # 0 \/ decimals # <<>>),
   int |-> whole,
   frac |-> decimals]

\* Number(text) for texts of digits, signs, points, separators and letters
\* that begin no numeric literal: the empty text is 0, a decimal literal is
\* its value, anything else is NaN
Number(text) ==
  LET t == Trim(text)
      signed == t # <<>> /\ Head(t) \in {"+", "-"}
      body == IF signed THEN Tail(t) ELSE t
      dots == {i \in 1..Len(body) : body[i] = "."}
      dot == IF dots = {} THEN Len(body) + 1 ELSE CHOOSE i \in dots : TRUE
      whole == SubSeq(body, 1, dot - 1)
      frac == SubSeq(body, dot + 1, Len(body))
      wellFormed ==
        /\ Cardinality(dots) <= 1
        /\ \A i \in 1..Len(body) : i \notin dots => IsDigit(body[i])
        /\ Len(whole) + Len(frac) >= 1
  IN IF t = <<>> THEN Decimal(FALSE, 0, <<>>)
     ELSE IF ~wellFormed THEN NaN
     ELSE Decimal(Head(t) = "-", WholeOf(whole), DecimalsOf(frac))

\* value.trim().replace(/[,\s]/g, '')
normalizeNumericInput(value) ==
  LET Kept(c) == c # "," /\ ~IsSpace(c)
  IN SelectSeq(Trim(value), Kept)

\* mutant of parseLooseNumber: the text is read up to its first character
\* that is not part of a number, as parseFloat reads it
parseLooseNumberLeadingPart(value) ==
  LET t == TrimStart(value)
      stops == {i \in 1..Len(t) : ~(IsDigit(t[i]) \/ t[i] = "." \/ (i = 1 /\ t[i] \in {"+", "-"}))}
      stop == IF stops = {} THEN Len(t) + 1
              ELSE CHOOSE i \in stops : \A j \in stops : i <= j
      lead == SubSeq(t, 1, stop - 1)
  IN IF lead \in {<<>>, <<".">>, <<"+">>, <<"-">>} THEN NaN ELSE Number(lead)

\* parseLooseNumber: the number after the grouping separators are removed
parseLooseNumber(value) ==
  LET normalized == normalizeNumericInput(value)
  IN IF normalized \in {<<>>, <<".">>, <<"+">>, <<"-">>} THEN NaN
     ELSE Number(normalized)

\* v < 0
IsNegative(v) == ~v.nan /\ v.neg
\* v > k, for a whole k >= 0
Exceeds(v, k) == ~v.nan /\ ~v.neg /\ (v.int > k \/ (v.int = k /\ v.frac # <<>>))
\* v === 0
IsZero(v) == ~v.nan /\ v.int = 0 /\ v.frac = <<>>
\* Number.isInteger(v)
IsInteger(v) == ~v.nan /\ v.frac = <<>>
\* the whole number v
IntOf(v) == IF v.neg THEN 0 - v.int ELSE v.int

\* the largest principal and contribution
MaxAmount == 1000000000
\* the largest interest rate, in percent
MaxAprPercent == 999
\* the largest inflation rate and the largest annual fee, in percent
MaxInflationPercent == 20
MaxFeePercent == 10

\* the texts a field of the form is given
PrincipalTexts ==
  {<<"1", "0", "0", "0", "0">>,
   <<"1", "0", ",", "0", "0", "0">>,
   <<"1", "0", " ", "0", "0", "0", ".", "5", "0">>,
   <<"0">>,
   <<>>,
   <<"-", "5">>,
   <<"a">>,
   <<"1", ",", "0", "0", "0", ",", "0", "0", "0", ",", "0", "0", "0">>,
   <<"1", "0", "0", "0", "0", "0", "0", "0", "0", "1">>}
ContributionTexts ==
  {<<"2", "0", "0">>,
   <<"1", ",", "2", "5", "0">>,
   <<" ", "2", "5", "0", ".", "7", "5">>,
   <<"0">>,
   <<"-", "1">>}
AprTexts == {<<"5">>, <<"0">>, <<"9", "9", "9">>, <<"9", "9", "9", ".", "5">>, <<"-", "1">>}
YearsTexts == {<<"1", "0">>, <<"0">>, <<"6", "0">>, <<"6", "1">>, <<"1", ".", "5">>, <<"-", "1">>, <<>>}
MonthsTexts == {<<"0">>, <<"1", "1">>, <<"1", "2">>, <<"2", ".", "5">>, <<>>}
\* the inflation and fee fields may be missing from the form: <<>>, else <<text>>
InflationTexts == {<<>>, << <<"2", ".", "5">> >>, << <<"2", "0">> >>, << <<"2", "5">> >>,
                   << <<"-", "0", ".", "5">> >>}
FeeTexts == {<<>>, << <<"1">> >>, << <<"1", "0">> >>, << <<"1", "2">> >>,
             << <<"-", "0", ".", "1">> >>}

FormStates ==
  [principal : PrincipalTexts,
   contribution : ContributionTexts,
   contributionFrequency : {"monthly"},
   apr : AprTexts,
   inflationPercent : InflationTexts,
   annualFeePercent : FeeTexts,
   compoundFrequency : {"monthly"},
   years : YearsTexts,
   months : MonthsTexts,
   timing : {"end"}]

DEFAULT_FORM ==
  [principal |-> <<"1", "0", "0", "0", "0">>,
   contribution |-> <<"2", "0", "0">>,
   contributionFrequency |-> "monthly",
   apr |-> <<"5">>,
   inflationPercent |-> <<>>,
   annualFeePercent |-> <<>>,
   compoundFrequency |-> "monthly",
   years |-> <<"1", "0">>,
   months |-> <<"0">>,
   timing |-> "end"]

\* the numbers parseAndValidate reads from the form
PrincipalOf(f) == parseLooseNumber(f.principal)
ContributionOf(f) == parseLooseNumber(f.contribution)
AprPctOf(f) == parseLooseNumber(f.apr)
\* a missing percent field counts as 0
PercentOf(field) ==
  IF field = <<>> THEN Decimal(FALSE, 0, <<>>) ELSE parseLooseNumber(field[1])
YearsRawOf(f) == Number(Trim(f.years))

MonthsRawOf(f) ==
  IF Trim(f.months) = <<>> THEN Decimal(FALSE, 0, <<>>)
  ELSE Number(Trim(f.months))

\* an amount field is in error: empty or not a number, negative, too large
AmountError(text, amount) ==
  \/ Trim(text) = <<>>
  \/ amount.nan
  \/ IsNegative(amount)
  \/ Exceeds(amount, MaxAmount)

\* the initial investment and the contribution are both 0
BothZero(f) ==
  /\ ~AmountError(f.principal, PrincipalOf(f))
  /\ ~AmountError(f.contribution, ContributionOf(f))
  /\ IsZero(PrincipalOf(f))
  /\ IsZero(ContributionOf(f))

AprError(f) ==
  \/ Trim(f.apr) = <<>>
  \/ AprPctOf(f).nan
  \/ IsNegative(AprPctOf(f))
  \/ Exceeds(AprPctOf(f), MaxAprPercent)

\* a percent field is in error: not a number, negative, above its maximum
PercentError(field, max) ==
  \/ PercentOf(field).nan
  \/ IsNegative(PercentOf(field))
  \/ Exceeds(PercentOf(field), max)

YearsError(f) ==
  \/ Trim(f.years) = <<>>
  \/ ~IsInteger(YearsRawOf(f))
  \/ IsNegative(YearsRawOf(f))

\* mutant of MonthsError: twelve additional months are let through
MonthsErrorAllowsTwelve(f) ==
  \/ ~IsInteger(MonthsRawOf(f))
  \/ IsNegative(MonthsRawOf(f))
  \/ Exceeds(MonthsRawOf(f), MaxExtraMonths + 1)

MonthsError(f) ==
  \/ ~IsInteger(MonthsRawOf(f))
  \/ IsNegative(MonthsRawOf(f))
  \/ Exceeds(MonthsRawOf(f), MaxExtraMonths)

\* the duration is checked only when years and months are each in order
DurationError(f) ==
  /\ ~YearsError(f)
  /\ ~MonthsError(f)
  /\ LET total == IntOf(YearsRawOf(f)) * MonthsPerYear + IntOf(MonthsRawOf(f))
     IN total = 0 \/ total > MaxTotalMonths

\* the fields that carry an error message
ErrorsOf(f) ==
  {field \in {"principal", "contribution", "apr", "inflationPercent",
              "annualFeePercent", "years", "months", "duration"} :
     \/ field = "principal"
          /\ (AmountError(f.principal, PrincipalOf(f)) \/ BothZero(f))
     \/ field = "contribution"
          /\ AmountError(f.contribution, ContributionOf(f))
     \/ field = "apr" /\ AprError(f)
     \/ field = "inflationPercent"
          /\ PercentError(f.inflationPercent, MaxInflationPercent)
     \/ field = "annualFeePercent"
          /\ PercentError(f.annualFeePercent, MaxFeePercent)
     \/ field = "years" /\ YearsError(f)
     \/ field = "months" /\ MonthsError(f)
     \/ field = "duration" /\ DurationError(f)}

\* the ParseResult: inputs is <<>> when the form is rejected.  The rates stay
\* in percent, the unit of apr, inflationRate and annualFeeRate in this model.
parseAndValidate(f) ==
  LET errors == ErrorsOf(f)
  IN IF errors # {}
     THEN [isValid |-> FALSE, errors |-> errors, inputs |-> <<>>]
     ELSE [isValid |-> TRUE,
           errors |-> {},
           inputs |->
             << [principal |-> PrincipalOf(f),
                 contribution |-> ContributionOf(f),
                 contributionFrequency |-> f.contributionFrequency,
                 apr |-> AprPctOf(f),
                 inflationRate |-> PercentOf(f.inflationPercent),
                 annualFeeRate |-> PercentOf(f.annualFeePercent),
                 compoundFrequency |-> f.compoundFrequency,
                 years |-> IntOf(YearsRawOf(f)),
                 months |-> IntOf(MonthsRawOf(f)),
                 timing |-> f.timing] >>]

\* ------------------------------------------------------------------- actions
\* mutant of MonthlyRateOf: the rate is taken net of inflation
MonthlyRateNetOfInflation(in) ==
  effectiveMonthlyRate(IF in.apr > InflationRateOf(in)
                       THEN in.apr - InflationRateOf(in) ELSE 0,
                       in.compoundFrequency)

\* mutant of MonthlyRateOf: the apr is capped at 6 percent
MonthlyRateCapped(in) ==
  effectiveMonthlyRate(IF in.apr > 6 THEN 6 ELSE in.apr, in.compoundFrequency)

\* the monthly rate of an invocation
MonthlyRateOf(in) == effectiveMonthlyRate(in.apr, in.compoundFrequency)

\* no invocation of calculate is in progress
EngineIdle ==
  /\ pc = "idle"
  /\ inputs = NoInputs
  /\ totalMonths = 0 /\ monthlyRate = 0 /\ monthlyContrib = 0
  /\ m = 1
  /\ balance = 0 /\ cumulativeContributions = 0 /\ cumulativeInterest = 0
  /\ monthlyBreakdown = <<>>
  /\ maxYear = 0 /\ y = 1
  /\ yearlyBreakdown = <<>>
  /\ balanceAfterFees = 0 /\ cumulativeFeesPaid = 0 /\ feeLedger = <<>>
  /\ result = NoResult

\* no caller has done anything yet
AppIdle ==
  /\ scenarios = <<>>
  /\ compareIds = <<>>
  /\ compareMode = FALSE
  /\ validInputs = <<>>
  /\ nextId = 1
  /\ mounted = FALSE
  /\ rendered = FALSE
  /\ caller = "none"

CallersIdle ==
  /\ history = <<>>
  /\ form = DEFAULT_FORM
  /\ parsed = <<>>
  /\ AppIdle

Init == EngineIdle /\ CallersIdle

\* calculate(inputs), up to the first test of the monthly loop
\* mutant of Calculate: cumulativeInterest lives outside the function and is
\* not reset by a new invocation
CalculateKeepsInterestTotal(in) ==
  /\ pc = "idle"
  /\ inputs' = in
  /\ totalMonths' = in.years * MonthsPerYear + in.months
  /\ monthlyRate' = MonthlyRateOf(in)
  /\ monthlyContrib' = effectiveMonthlyContribution(in.contribution, in.contributionFrequency)
  /\ monthlyBreakdown' = <<>>
  /\ balance' = in.principal
  /\ cumulativeContributions' = 0
  /\ balanceAfterFees' = in.principal
  /\ cumulativeFeesPaid' = 0
  /\ feeLedger' = <<>>
  /\ m' = 1
  /\ pc' = "loop"
  /\ UNCHANGED <<cumulativeInterest, maxYear, y, yearlyBreakdown, result, callerVars>>

Calculate(in) ==
  /\ pc = "idle"
  /\ inputs' = in
  /\ totalMonths' = in.years * MonthsPerYear + in.months
  /\ monthlyRate' = MonthlyRateOf(in)
  /\ monthlyContrib' = effectiveMonthlyContribution(in.contribution, in.contributionFrequency)
  /\ monthlyBreakdown' = <<>>
  /\ balance' = in.principal
  /\ cumulativeContributions' = 0
  /\ cumulativeInterest' = 0
  /\ balanceAfterFees' = in.principal
  /\ cumulativeFeesPaid' = 0
  /\ feeLedger' = <<>>
  /\ m' = 1
  /\ pc' = "loop"
  /\ UNCHANGED <<maxYear, y, yearlyBreakdown, result, callerVars>>

\* mutant of StartingBalance: the month starts from the after-fees balance
StartingBalanceAfterFees == balanceAfterFees

\* const startingBalance = balance
StartingBalance == balance

\* mutant of LoopContinues: the last iteration is left out
LoopContinuesStopsEarly == m < totalMonths

\* mutant of LoopContinues: one iteration too many
LoopContinuesOneMore == m <= totalMonths + 1

\* m <= totalMonths
LoopContinues == m <= totalMonths

\* the part of an iteration after the timing branch, and the after-fees track
LoopTail(startingBalance, step) ==
  LET feeEntry == FeeStep(balanceAfterFees, monthlyContrib, monthlyRate,
                          inputs.timing, FeeRateOf(inputs), cumulativeFeesPaid, m)
  IN /\ balance' = step.balance
     /\ cumulativeContributions' = cumulativeContributions + step.periodContrib
     /\ cumulativeInterest' = cumulativeInterest + step.periodInterest
     /\ monthlyBreakdown' =
          Append(monthlyBreakdown,
                 MonthlyRow(m, startingBalance, step,
                            cumulativeContributions + step.periodContrib,
                            cumulativeInterest + step.periodInterest))
     /\ balanceAfterFees' = feeEntry.endingBalanceAfterFees
     /\ cumulativeFeesPaid' = feeEntry.cumulativeFeesPaid
     /\ feeLedger' = Append(feeLedger, feeEntry)
     /\ m' = m + 1
     /\ UNCHANGED <<pc, inputs, totalMonths, monthlyRate, monthlyContrib,
                    maxYear, y, yearlyBreakdown, result, callerVars>>

\* one iteration of the monthly loop with timing === 'start'
MonthStart ==
  /\ pc = "loop"
  /\ LoopContinues
  /\ inputs.timing = "start"
  /\ LoopTail(StartingBalance,
              PeriodStep(StartingBalance, monthlyContrib, monthlyRate, inputs.timing))

\* one iteration of the monthly loop with the other timing
MonthEnd ==
  /\ pc = "loop"
  /\ LoopContinues
  /\ inputs.timing # "start"
  /\ LoopTail(StartingBalance,
              PeriodStep(StartingBalance, monthlyContrib, monthlyRate, inputs.timing))

\* the monthly loop exits; maxYear is the last monthly row's year
EndLoop ==
  /\ pc = "loop"
  /\ ~LoopContinues
  /\ maxYear' = IF Len(monthlyBreakdown) > 0 THEN Last(monthlyBreakdown).year ELSE 0
  /\ y' = 1
  /\ yearlyBreakdown' = <<>>
  /\ pc' = "aggregate"
  /\ UNCHANGED <<inputs, totalMonths, monthlyRate, monthlyContrib, m, balance,
                 cumulativeContributions, cumulativeInterest, monthlyBreakdown,
                 balanceAfterFees, cumulativeFeesPaid, feeLedger, result,
                 callerVars>>

\* one iteration of the yearly loop
YearRow ==
  /\ pc = "aggregate"
  /\ y <= maxYear
  /\ \E rows \in {RowsOfYear(monthlyBreakdown, y)},
        feeRows \in {RowsOfYear(feeLedger, y)} :
       yearlyBreakdown' =
          IF Len(rows) = 0 THEN yearlyBreakdown
          ELSE Append(yearlyBreakdown,
                      YearlyRow(y, rows) @@ YearlyFeeFields(feeRows)
                        @@ YearlyRealFields(rows, InflationRateOf(inputs)))
  /\ y' = y + 1
  /\ UNCHANGED <<pc, inputs, totalMonths, monthlyRate, monthlyContrib, m, balance,
                 cumulativeContributions, cumulativeInterest, monthlyBreakdown,
                 maxYear, balanceAfterFees, cumulativeFeesPaid, feeLedger, result,
                 callerVars>>

\* mutant of CalcResult: finalBalance is taken from the after-fees balance
CalcResultFinalFromAfterFees ==
  [finalBalance |-> balanceAfterFees,
   totalContributions |-> cumulativeContributions,
   totalInterest |-> cumulativeInterest,
   finalBalanceAfterFees |-> balanceAfterFees,
   totalFeesPaidNominal |-> cumulativeFeesPaid,
   finalBalanceReal |->
     RealValue(balance, InflationRateOf(inputs), totalMonths),
   totalContributionsReal |->
     RealValue(cumulativeContributions, InflationRateOf(inputs), totalMonths),
   totalInterestReal |->
     RealValue(cumulativeInterest, InflationRateOf(inputs), totalMonths),
   finalBalanceAfterFeesReal |->
     RealValue(balanceAfterFees, InflationRateOf(inputs), totalMonths),
   totalFeesPaidReal |->
     RealValue(cumulativeFeesPaid, InflationRateOf(inputs), totalMonths),
   yearlyBreakdown |-> yearlyBreakdown,
   monthlyBreakdown |-> monthlyBreakdown]

\* the result record
CalcResult ==
  [finalBalance |-> balance,
   totalContributions |-> cumulativeContributions,
   totalInterest |-> cumulativeInterest,
   finalBalanceAfterFees |-> balanceAfterFees,
   totalFeesPaidNominal |-> cumulativeFeesPaid,
   finalBalanceReal |->
     RealValue(balance, InflationRateOf(inputs), totalMonths),
   totalContributionsReal |->
     RealValue(cumulativeContributions, InflationRateOf(inputs), totalMonths),
   totalInterestReal |->
     RealValue(cumulativeInterest, InflationRateOf(inputs), totalMonths),
   finalBalanceAfterFeesReal |->
     RealValue(balanceAfterFees, InflationRateOf(inputs), totalMonths),
   totalFeesPaidReal |->
     RealValue(cumulativeFeesPaid, InflationRateOf(inputs), totalMonths),
   yearlyBreakdown |-> yearlyBreakdown,
   monthlyBreakdown |-> monthlyBreakdown]

\* the yearly loop exits and calculate returns
Return ==
  /\ pc = "aggregate"
  /\ y > maxYear
  /\ result' = CalcResult
  /\ pc' = "done"
  /\ UNCHANGED <<inputs, totalMonths, monthlyRate, monthlyContrib, m, balance,
                 cumulativeContributions, cumulativeInterest, monthlyBreakdown,
                 maxYear, y, yearlyBreakdown, balanceAfterFees,
                 cumulativeFeesPaid, feeLedger, callerVars>>

\* a caller invokes calculate with some inputs
Invoke ==
  /\ pc = "idle"
  /\ \E in \in CalcInputs : Calculate(in)

Next ==
  \/ Invoke
  \/ MonthStart
  \/ MonthEnd
  \/ EndLoop
  \/ YearRow
  \/ Return

Spec == Init /\ [][Next]_vars

\* a caller invokes calculate again, after earlier invocations have returned
InvokeSeq ==
  /\ pc = "idle"
  /\ Len(history) < MaxCalls
  /\ \E in \in SeqCalcInputs : Calculate(in)

\* the caller takes the returned result; the locals of the finished
\* invocation are garbage that the next invocation may find
Collect ==
  /\ pc = "done"
  /\ history' = Append(history, [inputs |-> inputs, result |-> result])
  /\ pc' = "idle"
  /\ UNCHANGED <<inputs, totalMonths, monthlyRate, monthlyContrib, m, balance,
                 cumulativeContributions, cumulativeInterest, monthlyBreakdown,
                 maxYear, y, yearlyBreakdown, balanceAfterFees,
                 cumulativeFeesPaid, feeLedger, result, formVars, appVars>>

NextSeq ==
  \/ InvokeSeq
  \/ MonthStart
  \/ MonthEnd
  \/ EndLoop
  \/ YearRow
  \/ Return
  \/ Collect

SpecSeq == Init /\ [][NextSeq]_vars

\* a caller invokes calculate for a duration at the edge of the valid range
InvokeLong ==
  /\ pc = "idle"
  /\ \E in \in LongCalcInputs : Calculate(in)

\* the statements of calculate after its entry
Step ==
  \/ MonthStart
  \/ MonthEnd
  \/ EndLoop
  \/ YearRow
  \/ Return

NextLong ==
  \/ InvokeLong
  \/ MonthStart
  \/ MonthEnd
  \/ EndLoop
  \/ YearRow
  \/ Return

\* calculate is synchronous: once entered, its next statement is executed
SpecLong == Init /\ [][NextLong]_vars /\ WF_vars(Step)

\* a form as the user may have filled it in, not yet validated
InitForm ==
  /\ EngineIdle
  /\ history = <<>>
  /\ form \in FormStates
  /\ parsed = <<>>
  /\ AppIdle

\* the form is validated
Validate ==
  /\ parsed = <<>>
  /\ parsed' = <<parseAndValidate(form)>>
  /\ UNCHANGED <<engineVars, history, form, appVars>>

NextForm == Validate

SpecForm == InitForm /\ [][NextForm]_vars

\* ------------------------------------------------------------ the component
\* the texts the months field is given while the component runs: one month,
\* and none, which the validation rejects
AppMonthsTexts == {<<"1">>, <<"0">>}

\* the form the component starts from; a run of one month on a principal of 1
\* stands for DEFAULT_FORM, whose run of 120 months does not fit 32 bits here
AppDefaultForm ==
  [DEFAULT_FORM EXCEPT !.principal = <<"1">>, !.contribution = <<"0">>,
                       !.apr = <<"6">>, !.years = <<"0">>, !.months = <<"1">>]

\* an amount of at most two decimals, in quanta
Quanta(v) ==
  LET tenths == IF Len(v.frac) >= 1 THEN v.frac[1] ELSE 0
      hundredths == IF Len(v.frac) >= 2 THEN v.frac[2] ELSE 0
  IN v.int * Unit + (tenths * 10 + hundredths) * (Unit \div 100)

\* the inputs record of a ParseResult in the units of the engine: amounts in
\* quanta, rates in whole percent
ToCalcInputs(in) ==
  [principal |-> Quanta(in.principal),
   contribution |-> Quanta(in.contribution),
   contributionFrequency |-> in.contributionFrequency,
   apr |-> in.apr.int,
   annualFeeRate |-> <<in.annualFeeRate.int>>,
   inflationRate |-> <<in.inflationRate.int>>,
   compoundFrequency |-> in.compoundFrequency,
   years |-> in.years,
   months |-> in.months,
   timing |-> in.timing]

\* inputs as an earlier session stored them
StoredInputs(months) ==
  [principal |-> 2 * Unit,
   contribution |-> 0,
   contributionFrequency |-> "monthly",
   apr |-> 6,
   annualFeeRate |-> <<0>>,
   inflationRate |-> <<0>>,
   compoundFrequency |-> "monthly",
   years |-> 0,
   months |-> months,
   timing |-> "start"]

\* localStorage holds whatever was last written under the key: nothing, the
\* scenarios of an earlier session, or a list whose inputs no validation
\* has seen (here: a duration of 0 months)
StoredLists ==
  {<<>>,
   <<[id |-> 101, inputs |-> StoredInputs(1)], [id |-> 102, inputs |-> StoredInputs(2)]>>,
   <<[id |-> 101, inputs |-> StoredInputs(1)], [id |-> 102, inputs |-> StoredInputs(0)]>>}

\* JSON.parse(raw) as Scenario[]: the stored list as it is
loadFromStorage(stored) == stored

\* the ids of the scenarios in a list
IdsOf(list) == {list[i].id : i \in 1..Len(list)}

\* list.find((s) => s.id === id), for an id in the list
Find(list, id) == list[CHOOSE i \in 1..Len(list) : list[i].id = id]

\* ids.filter(keep)
FilterIds(ids, kept) ==
  LET Keep(id) == id \in kept
  IN SelectSeq(ids, Keep)

\* the ids in a sequence
Range(ids) == {ids[i] : i \in 1..Len(ids)}

\* compareIds.map(find).filter(Boolean)
selectedCompareScenarios ==
  LET found == FilterIds(compareIds, IdsOf(scenarios))
  IN [i \in 1..Len(found) |-> Find(scenarios, found[i])]

\* <<>> for null, else <<the two scenarios>>
comparePair ==
  IF compareMode /\ Len(selectedCompareScenarios) = 2
  THEN <<selectedCompareScenarios>>
  ELSE <<>>

\* no handler, effect or render is in the middle of a call to calculate
AppReady == pc = "idle" /\ caller = "none"

\* a passive effect has work to do
EffectsPending ==
  \/ Range(compareIds) \ IdsOf(scenarios) # {}
  \/ compareMode /\ Len(compareIds) < 2

\* the user can act: the component is mounted and rendered and its effects
\* have been flushed
Interactive == AppReady /\ mounted /\ rendered /\ ~EffectsPending

\* the component is constructed: useState initial values
InitApp ==
  /\ EngineIdle
  /\ history = <<>>
  /\ form = AppDefaultForm
  /\ parsed = <<>>
  /\ \E stored \in StoredLists : scenarios = loadFromStorage(stored)
  /\ compareIds = <<>>
  /\ compareMode = FALSE
  /\ validInputs = <<>>
  /\ nextId = 1
  /\ mounted = FALSE
  /\ rendered = FALSE
  /\ caller = "none"

\* the component renders; the comparison view calculates A and then B when
\* there is a pair
Render ==
  /\ AppReady
  /\ ~rendered
  /\ rendered' = TRUE
  /\ caller' = IF comparePair # <<>> THEN "compareA" ELSE "none"
  /\ UNCHANGED <<engineVars, history, formVars, scenarios, compareIds,
                 compareMode, validInputs, nextId, mounted>>

\* the debounced form effect up to its call of calculate
FormEffect ==
  /\ AppReady
  /\ rendered
  /\ parsed = <<>>
  /\ \E r \in {parseAndValidate(form)} :
       /\ parsed' = <<r>>
       /\ validInputs' = IF r.isValid /\ r.inputs # <<>>
                         THEN <<ToCalcInputs(r.inputs[1])>>
                         ELSE <<>>
       /\ caller' = IF r.isValid /\ r.inputs # <<>> THEN "form" ELSE "none"
  /\ rendered' = FALSE
  /\ UNCHANGED <<engineVars, history, form, scenarios, compareIds, compareMode,
                 nextId, mounted>>

\* the mount effect up to its call of calculate; it runs once, after the
\* first run of the form effect
MountEffect ==
  /\ AppReady
  /\ parsed # <<>>
  /\ ~mounted
  /\ mounted' = TRUE
  /\ \E r \in {parseAndValidate(AppDefaultForm)} :
       /\ validInputs' = IF r.isValid /\ r.inputs # <<>>
                         THEN <<ToCalcInputs(r.inputs[1])>>
                         ELSE validInputs
       /\ caller' = IF r.isValid /\ r.inputs # <<>> THEN "mount" ELSE "none"
  /\ rendered' = FALSE
  /\ UNCHANGED <<engineVars, history, formVars, scenarios, compareIds,
                 compareMode, nextId>>

\* the argument of the call that is due
ArgumentOf(site) ==
  IF site = "compareA" THEN comparePair[1][1].inputs
  ELSE IF site = "compareB" THEN comparePair[1][2].inputs
  ELSE validInputs[1]

\* the call of calculate that is due is made
InvokeApp ==
  /\ pc = "idle"
  /\ caller # "none"
  /\ \E in \in {ArgumentOf(caller)} : Calculate(in)

\* the locals of a finished invocation are gone
EngineReset ==
  /\ pc' = "idle"
  /\ inputs' = NoInputs
  /\ totalMonths' = 0 /\ monthlyRate' = 0 /\ monthlyContrib' = 0
  /\ m' = 1
  /\ balance' = 0 /\ cumulativeContributions' = 0 /\ cumulativeInterest' = 0
  /\ monthlyBreakdown' = <<>>
  /\ maxYear' = 0 /\ y' = 1
  /\ yearlyBreakdown' = <<>>
  /\ balanceAfterFees' = 0 /\ cumulativeFeesPaid' = 0 /\ feeLedger' = <<>>
  /\ result' = NoResult

\* calculate has returned to its call site
Settle ==
  /\ pc = "done"
  /\ caller # "none"
  /\ EngineReset
  /\ caller' = IF caller = "compareA" THEN "compareB" ELSE "none"
  /\ UNCHANGED <<history, formVars, scenarios, compareIds, compareMode,
                 validInputs, nextId, mounted, rendered>>

\* handleFormChange with a patch of the months field
handleFormChange ==
  /\ Interactive
  /\ \E text \in AppMonthsTexts :
       /\ text # form.months
       /\ form' = [form EXCEPT !.months = text]
  /\ parsed' = <<>>
  /\ rendered' = FALSE
  /\ UNCHANGED <<engineVars, history, scenarios, compareIds, compareMode,
                 validInputs, nextId, mounted, caller>>

\* handleSaveScenario and saveScenario
handleSaveScenario ==
  /\ Interactive
  /\ validInputs # <<>>
  /\ nextId <= MaxIds
  /\ scenarios' = Append(scenarios, [id |-> nextId, inputs |-> validInputs[1]])
  /\ nextId' = nextId + 1
  /\ rendered' = FALSE
  /\ UNCHANGED <<engineVars, history, formVars, compareIds, compareMode,
                 validInputs, mounted, caller>>

\* duplicateScenario
duplicateScenario(id) ==
  /\ Interactive
  /\ id \in IdsOf(scenarios)
  /\ nextId <= MaxIds
  /\ scenarios' = Append(scenarios, [Find(scenarios, id) EXCEPT !.id = nextId])
  /\ nextId' = nextId + 1
  /\ rendered' = FALSE
  /\ UNCHANGED <<engineVars, history, formVars, compareIds, compareMode,
                 validInputs, mounted, caller>>

\* deleteScenario
deleteScenario(id) ==
  /\ Interactive
  /\ id \in IdsOf(scenarios)
  /\ scenarios' = LET Kept(s) == s.id # id IN SelectSeq(scenarios, Kept)
  /\ rendered' = FALSE
  /\ UNCHANGED <<engineVars, history, formVars, compareIds, compareMode,
                 validInputs, nextId, mounted, caller>>

\* mutant of ToggledCompareIds: a third id is let in
ToggledCompareIdsNoLimit(prev, id) ==
  IF id \in Range(prev) THEN FilterIds(prev, Range(prev) \ {id})
  ELSE Append(prev, id)

\* the updater of handleToggleCompareId
ToggledCompareIds(prev, id) ==
  IF id \in Range(prev) THEN FilterIds(prev, Range(prev) \ {id})
  ELSE IF Len(prev) >= 2 THEN prev
  ELSE Append(prev, id)

\* handleToggleCompareId, from the checkbox of a scenario in the list
handleToggleCompareId(id) ==
  /\ Interactive
  /\ id \in IdsOf(scenarios)
  /\ compareIds' = ToggledCompareIds(compareIds, id)
  /\ rendered' = (compareIds' = compareIds)
  /\ UNCHANGED <<engineVars, history, formVars, scenarios, compareMode,
                 validInputs, nextId, mounted, caller>>

\* mutant of CompareAllowed: one selected scenario is enough
CompareAllowedFromOne == Len(compareIds) >= 1

\* compareIds.length === 2
CompareAllowed == Len(compareIds) = 2

\* handleCompare
handleCompare ==
  /\ Interactive
  /\ ~compareMode
  /\ CompareAllowed
  /\ compareMode' = TRUE
  /\ rendered' = FALSE
  /\ UNCHANGED <<engineVars, history, formVars, scenarios, compareIds,
                 validInputs, nextId, mounted, caller>>

\* handleClearCompare
handleClearCompare ==
  /\ Interactive
  /\ compareMode \/ compareIds # <<>>
  /\ compareMode' = FALSE
  /\ compareIds' = <<>>
  /\ rendered' = FALSE
  /\ UNCHANGED <<engineVars, history, formVars, scenarios, validInputs, nextId,
                 mounted, caller>>

\* prev.filter((id) => scenarios.some((s) => s.id === id))
PrunedCompareIds == FilterIds(compareIds, IdsOf(scenarios))

\* the effect on [scenarios]
PruneEffect ==
  /\ AppReady
  /\ rendered
  /\ Range(compareIds) \ IdsOf(scenarios) # {}
  /\ compareIds' = PrunedCompareIds
  /\ rendered' = FALSE
  /\ UNCHANGED <<engineVars, history, formVars, scenarios, compareMode,
                 validInputs, nextId, mounted, caller>>

\* the effect on [compareMode, compareIds.length]
ModeEffect ==
  /\ AppReady
  /\ rendered
  /\ compareMode /\ Len(compareIds) < 2
  /\ compareMode' = FALSE
  /\ rendered' = FALSE
  /\ UNCHANGED <<engineVars, history, formVars, scenarios, compareIds,
                 validInputs, nextId, mounted, caller>>

\* every id a scenario can carry
AllIds == 1..MaxIds \cup {101, 102}

\* what is carried out as soon as it is due: renders, the calls of calculate
\* and the two effects on the comparison state
AppInternal ==
  \/ Render
  \/ InvokeApp
  \/ Step
  \/ Settle
  \/ PruneEffect
  \/ ModeEffect

NextApp ==
  \/ Render
  \/ FormEffect
  \/ MountEffect
  \/ InvokeApp
  \/ MonthStart
  \/ MonthEnd
  \/ EndLoop
  \/ YearRow
  \/ Return
  \/ Settle
  \/ PruneEffect
  \/ ModeEffect
  \/ handleFormChange
  \/ handleSaveScenario
  \/ \E id \in AllIds : duplicateScenario(id)
  \/ \E id \in AllIds : deleteScenario(id)
  \/ \E id \in AllIds : handleToggleCompareId(id)
  \/ handleCompare
  \/ handleClearCompare

\* (the debounce timer of the form effect is left without a fairness condition)
SpecApp == InitApp /\ [][NextApp]_vars /\ WF_vars(AppInternal)

\* a session in which the form is left as it was loaded: the scenario list
\* and the comparison controls only
NextCompare ==
  \/ Render
  \/ FormEffect
  \/ MountEffect
  \/ InvokeApp
  \/ MonthStart
  \/ MonthEnd
  \/ EndLoop
  \/ YearRow
  \/ Return
  \/ Settle
  \/ PruneEffect
  \/ ModeEffect
  \/ handleSaveScenario
  \/ \E id \in AllIds : duplicateScenario(id)
  \/ \E id \in AllIds : deleteScenario(id)
  \/ \E id \in AllIds : handleToggleCompareId(id)
  \/ handleCompare
  \/ handleClearCompare

SpecCompare == InitApp /\ [][NextCompare]_vars /\ WF_vars(AppInternal)

\* a caller invokes calculate with an inflationRate among its inputs
InvokeReal ==
  /\ pc = "idle"
  /\ \E in \in RealCalcInputs : Calculate(in)

NextReal ==
  \/ InvokeReal
  \/ MonthStart
  \/ MonthEnd
  \/ EndLoop
  \/ YearRow
  \/ Return

SpecReal == Init /\ [][NextReal]_vars

\* a caller invokes calculate for one month at some apr
InvokeRate ==
  /\ pc = "idle"
  /\ \E in \in RateCalcInputs : Calculate(in)

NextRate ==
  \/ InvokeRate
  \/ MonthStart
  \/ MonthEnd
  \/ EndLoop
  \/ YearRow
  \/ Return

SpecRate == Init /\ [][NextRate]_vars

\* ===================================================================== claims
Returned == pc = "done"

\* ceil(n / 12), written without YearOf
CeilTwelfth(n) == (n + 11) \div 12

\* C1: calculate returns exactly years*12+months monthly rows and exactly
\* ceil((years*12+months)/12) yearly rows, the yearly rows numbered 1,2,... in
\* order, and a final partial year (months > 0) is a row of its own.
C1_RowCounts ==
  Returned =>
    LET n == inputs.years * 12 + inputs.months
    IN /\ Len(result.monthlyBreakdown) = n
       /\ Len(result.yearlyBreakdown) = CeilTwelfth(n)
       /\ \A i \in 1..Len(result.yearlyBreakdown) : result.yearlyBreakdown[i].year = i
       /\ inputs.months > 0 =>
            /\ Len(result.yearlyBreakdown) = inputs.years + 1
            /\ Last(result.yearlyBreakdown).year = inputs.years + 1

\* a run of one year and six months has returned, with a second, partial year row
C1_Witness ==
  /\ Returned
  /\ inputs.years = 1 /\ inputs.months = 6
  /\ Len(result.monthlyBreakdown) = 18
  /\ Len(result.yearlyBreakdown) = 2

\* C2: the returned result satisfies
\* finalBalance = principal + totalContributions + totalInterest.
C2_AccountingIdentity ==
  Returned =>
    result.finalBalance
      = inputs.principal + result.totalContributions + result.totalInterest

\* a run with a principal, contributions and interest has returned
C2_Witness ==
  /\ Returned
  /\ inputs.principal > 0
  /\ result.totalContributions > 0
  /\ result.totalInterest > 0
  /\ inputs.timing = "start"

\* C3: with timing = start every monthly row records the monthly contribution,
\* interest (startingBalance + monthlyContrib) * monthlyRate, and
\* endingBalance (startingBalance + monthlyContrib) * (1 + monthlyRate).
C3_StartTimingRow ==
  inputs.timing = "start" =>
    \A i \in 1..Len(monthlyBreakdown) :
      LET row == monthlyBreakdown[i]
          base == row.startingBalance + monthlyContrib
      IN /\ row.contributions = monthlyContrib
         /\ row.interest = (base * monthlyRate) \div RateScale
         /\ row.endingBalance = base + (base * monthlyRate) \div RateScale

\* a start-timing month with a balance, a contribution and a rate was simulated
C3_Witness ==
  /\ inputs.timing = "start"
  /\ monthlyContrib > 0 /\ monthlyRate > 0
  /\ Len(monthlyBreakdown) >= 2
  /\ Last(monthlyBreakdown).startingBalance > 0
  /\ Last(monthlyBreakdown).interest > 0

\* C4: with timing = end every monthly row has interest
\* startingBalance * monthlyRate and endingBalance
\* startingBalance * (1 + monthlyRate) + monthlyContrib: the contribution
\* earns nothing in the month it is paid.
C4_EndTimingRow ==
  inputs.timing = "end" =>
    \A i \in 1..Len(monthlyBreakdown) :
      LET row == monthlyBreakdown[i]
          sb == row.startingBalance
      IN /\ row.contributions = monthlyContrib
         /\ row.interest = (sb * monthlyRate) \div RateScale
         /\ row.endingBalance = sb + (sb * monthlyRate) \div RateScale + monthlyContrib

\* an end-timing month with a balance, a contribution and a rate was simulated
C4_Witness ==
  /\ inputs.timing = "end"
  /\ monthlyContrib > 0 /\ monthlyRate > 0
  /\ Len(monthlyBreakdown) >= 2
  /\ Last(monthlyBreakdown).startingBalance > 0
  /\ Last(monthlyBreakdown).interest > 0

\* the ending balance after n months of the run that differs only in its timing
BalanceWithTiming(timing, n) ==
  Simulate(inputs.principal, monthlyContrib, monthlyRate, timing, n).balance

\* C5: for two runs that differ only in timing, after every month the
\* start-timing ending balance is >= the end-timing one, strictly greater
\* when monthlyContrib > 0 and monthlyRate > 0, and equal when either is 0.
C5_StartNotBelowEnd ==
  Len(monthlyBreakdown) >= 1 =>
    LET n == Len(monthlyBreakdown)
        mine == Last(monthlyBreakdown).endingBalance
        startBal == IF inputs.timing = "start" THEN mine ELSE BalanceWithTiming("start", n)
        endBal == IF inputs.timing = "end" THEN mine ELSE BalanceWithTiming("end", n)
    IN /\ startBal >= endBal
       /\ (monthlyContrib > 0 /\ monthlyRate > 0) => startBal > endBal
       /\ (monthlyContrib = 0 \/ monthlyRate = 0) => startBal = endBal

\* several end-timing months with a contribution and a rate were simulated
C5_Witness ==
  /\ inputs.timing = "end"
  /\ monthlyContrib > 0 /\ monthlyRate > 0
  /\ Len(monthlyBreakdown) >= 3
  /\ BalanceWithTiming("start", Len(monthlyBreakdown)) > Last(monthlyBreakdown).endingBalance

\* C6: with apr = 0, whatever the compoundFrequency and the timing,
\* totalInterest is exactly 0 and finalBalance = principal + totalMonths *
\* effectiveMonthlyContribution(contribution, contributionFrequency).
C6_ZeroApr ==
  (Returned /\ inputs.apr = 0) =>
    /\ result.totalInterest = 0
    /\ result.finalBalance
         = inputs.principal
           + (inputs.years * 12 + inputs.months)
             * effectiveMonthlyContribution(inputs.contribution,
                                            inputs.contributionFrequency)

\* a zero-APR run with daily compounding, start timing and weekly
\* contributions over a partial year has returned
C6_Witness ==
  /\ Returned
  /\ inputs.apr = 0
  /\ inputs.compoundFrequency = "daily"
  /\ inputs.timing = "start"
  /\ inputs.contributionFrequency = "weekly"
  /\ inputs.contribution > 0
  /\ inputs.months = 6
  /\ result.finalBalance > inputs.principal

RECURSIVE SumOver(_, _, _, _)
\* the sum of field over rows lo..hi of a sequence
SumOver(rows, field, lo, hi) ==
  IF lo > hi THEN 0 ELSE rows[lo][field] + SumOver(rows, field, lo + 1, hi)

\* C7: every yearly row aggregates exactly the monthly rows whose year is its
\* year, in month order: startingBalance of the first, endingBalance and
\* cumulative fields of the last, contributions and interest summed.
C7_YearlyAggregation ==
  \A k \in 1..Len(yearlyBreakdown) :
    LET yrow == yearlyBreakdown[k]
        idx == {i \in 1..Len(monthlyBreakdown) : monthlyBreakdown[i].year = yrow.year}
        first == CHOOSE i \in idx : \A j \in idx : i <= j
        last == CHOOSE i \in idx : \A j \in idx : i >= j
    IN /\ idx # {}
       /\ idx = first..last
       /\ yrow.startingBalance = monthlyBreakdown[first].startingBalance
       /\ yrow.endingBalance = monthlyBreakdown[last].endingBalance
       /\ yrow.contributions = SumOver(monthlyBreakdown, "contributions", first, last)
       /\ yrow.interest = SumOver(monthlyBreakdown, "interest", first, last)
       /\ yrow.cumulativeContributions = monthlyBreakdown[last].cumulativeContributions
       /\ yrow.cumulativeInterest = monthlyBreakdown[last].cumulativeInterest

\* a full first year and a partial second year were aggregated, with
\* contributions and interest in both
C7_Witness ==
  /\ Len(yearlyBreakdown) = 2
  /\ Len(monthlyBreakdown) = 18
  /\ yearlyBreakdown[2].contributions > 0
  /\ yearlyBreakdown[2].interest > 0
  /\ yearlyBreakdown[1].contributions > yearlyBreakdown[2].contributions
  /\ yearlyBreakdown[2].startingBalance = yearlyBreakdown[1].endingBalance

\* C8: the i-th monthly row has period = i, year = ceil(i/12) and
\* month = ((i-1) mod 12)+1; month is in 1..12, period 12 is month 12 of
\* year 1 and period 13 is month 1 of year 2.
C8_PeriodIndexing ==
  \A i \in 1..Len(monthlyBreakdown) :
    LET row == monthlyBreakdown[i]
    IN /\ row.period = i
       /\ row.year = CeilTwelfth(i)
       /\ row.month = ((i - 1) % 12) + 1
       /\ row.month \in 1..12
       /\ i = 12 => (row.year = 1 /\ row.month = 12)
       /\ i = 13 => (row.year = 2 /\ row.month = 1)

\* a run went past the first year boundary
C8_Witness ==
  /\ Len(monthlyBreakdown) >= 13
  /\ monthlyBreakdown[12].year = 1
  /\ monthlyBreakdown[13].year = 2

\* the nominal fields of a yearly row
NominalFields(yrow) ==
  [year |-> yrow.year,
   startingBalance |-> yrow.startingBalance,
   contributions |-> yrow.contributions,
   interest |-> yrow.interest,
   endingBalance |-> yrow.endingBalance,
   cumulativeContributions |-> yrow.cumulativeContributions,
   cumulativeInterest |-> yrow.cumulativeInterest]

\* the nominal simulation of the inputs other than annualFeeRate, as far as
\* the run has come
FeeFreePath ==
  Simulate(inputs.principal, monthlyContrib, monthlyRate, inputs.timing,
           Len(monthlyBreakdown))

\* C9: the nominal path (every monthly and yearly nominal field, finalBalance,
\* totalContributions, totalInterest) is the same for any two inputs that
\* differ only in annualFeeRate: it is the path determined by the other
\* inputs alone.
C9_NominalPathIgnoresFee ==
  LET path == FeeFreePath
  IN /\ monthlyBreakdown = path.monthlyBreakdown
     /\ balance = path.balance
     /\ cumulativeContributions = path.cumulativeContributions
     /\ cumulativeInterest = path.cumulativeInterest
     /\ \A k \in 1..Len(yearlyBreakdown) :
          NominalFields(yearlyBreakdown[k])
            = YearlyRow(k, RowsOfYear(path.monthlyBreakdown, k))
     /\ Returned =>
          /\ result.finalBalance = path.balance
          /\ result.totalContributions = path.cumulativeContributions
          /\ result.totalInterest = path.cumulativeInterest
          /\ result.monthlyBreakdown = path.monthlyBreakdown
          /\ Len(result.yearlyBreakdown) = Len(yearlyBreakdown)
          /\ \A k \in 1..Len(result.yearlyBreakdown) :
               NominalFields(result.yearlyBreakdown[k])
                 = NominalFields(yearlyBreakdown[k])

\* a run with a 1 percent annual fee has returned, and fees were deducted on
\* the after-fees track
C9_Witness ==
  /\ Returned
  /\ inputs.annualFeeRate = <<1>>
  /\ result.totalFeesPaidNominal > 0
  /\ result.finalBalanceAfterFees < result.finalBalance
  /\ result.totalInterest > 0
  /\ Len(result.yearlyBreakdown) = 2

C10_WitnessOmitted ==
  /\ Returned
  /\ inputs.annualFeeRate = <<>>
  /\ result.totalInterest > 0
  /\ result.finalBalanceAfterFees = result.finalBalance

\* the after-fees balance a month opens with: the principal, then the previous
\* month's closing after-fees balance
OpeningAfterFees(i) ==
  IF i = 1 THEN inputs.principal ELSE feeLedger[i - 1].endingBalanceAfterFees

\* the opening after-fees balance of month i after that month's growth: the
\* contribution and the interest of the chosen timing, before any fee
GrownAfterFees(i) ==
  LET open == OpeningAfterFees(i)
  IN IF inputs.timing = "start"
     THEN open + monthlyContrib
            + ((open + monthlyContrib) * monthlyRate) \div RateScale
     ELSE open + (open * monthlyRate) \div RateScale + monthlyContrib

ElapsedAtRow(k, n) == IF k * 12 <= n THEN k * 12 ELSE n

ScalarsOf(in) ==
  LET n == in.years * 12 + in.months
      rate == MonthlyRateOf(in)
      contrib == effectiveMonthlyContribution(in.contribution,
                                              in.contributionFrequency)
      path == Simulate(in.principal, contrib, rate, in.timing, n)
      fees == FeeTrack(in.principal, contrib, rate, in.timing, FeeRateOf(in), n)
  IN [finalBalance |-> path.balance,
      totalContributions |-> path.cumulativeContributions,
      totalInterest |-> path.cumulativeInterest,
      finalBalanceAfterFees |-> fees.balanceAfterFees,
      totalFeesPaidNominal |-> fees.cumulativeFeesPaid,
      finalBalanceReal |-> RealValue(path.balance, InflationRateOf(in), n),
      finalBalanceAfterFeesReal |->
        RealValue(fees.balanceAfterFees, InflationRateOf(in), n)]

NominalOf(in) ==
  Simulate(in.principal,
           effectiveMonthlyContribution(in.contribution, in.contributionFrequency),
           MonthlyRateOf(in), in.timing, in.years * 12 + in.months)

\* some month of the returned run computed its interest on a positive
\* balance: the opening balance, with the contribution under start timing
EarnsOnPositiveBalance ==
  \E i \in 1..Len(result.monthlyBreakdown) :
    LET row == result.monthlyBreakdown[i]
    IN row.startingBalance
         + (IF inputs.timing = "start" THEN row.contributions ELSE 0) > 0

\* C16: for two inputs that differ only in apr, with a positive balance (one
\* on which some month's interest is computed), the input with the higher apr
\* has a strictly higher finalBalance.
C16_AprMonotone ==
  (Returned /\ EarnsOnPositiveBalance) =>
    \A a \in AprPercents :
      LET alt == NominalOf([inputs EXCEPT !.apr = a]).balance
      IN /\ a = inputs.apr => alt = result.finalBalance
         /\ a > inputs.apr => alt > result.finalBalance
         /\ a < inputs.apr => alt < result.finalBalance

\* a run at 6 percent with contributions only (no principal), end timing and
\* more than a year has returned; 12 percent gives more, 0 percent less
C16_Witness ==
  /\ Returned
  /\ inputs.apr = 6
  /\ inputs.principal = 0
  /\ inputs.timing = "end"
  /\ totalMonths > MonthsPerYear
  /\ EarnsOnPositiveBalance
  /\ NominalOf([inputs EXCEPT !.apr = 12]).balance > result.finalBalance
  /\ NominalOf([inputs EXCEPT !.apr = 0]).balance < result.finalBalance

\* the final balance of the returned run's inputs under compounding mode f
FinalBalanceUnder(f) == NominalOf([inputs EXCEPT !.compoundFrequency = f]).balance

\* the inputs of the returned run pass validation: at least one month, and a
\* positive principal or contribution
ValidatedRun ==
  /\ Returned
  /\ totalMonths >= 1
  /\ inputs.principal > 0 \/ inputs.contribution > 0

\* C17 as stated: for every nonzero apr and otherwise identical (validated)
\* inputs, monthly compounding yields a strictly higher finalBalance than
\* annual compounding.
C17_AsStated ==
  (ValidatedRun /\ inputs.apr # 0 /\ inputs.compoundFrequency = "monthly") =>
    FinalBalanceUnder("annual") < result.finalBalance

\* C17: for identical nonzero apr and otherwise identical inputs, monthly
\* compounding yields a strictly higher finalBalance than annual compounding
\* whenever some month's interest is computed on a positive balance, and the
\* same finalBalance when no month's is.
C17_MonthlyAboveAnnual ==
  (Returned /\ inputs.apr # 0) =>
    /\ inputs.compoundFrequency = "monthly" =>
         IF EarnsOnPositiveBalance
         THEN FinalBalanceUnder("annual") < result.finalBalance
         ELSE FinalBalanceUnder("annual") = result.finalBalance
    /\ inputs.compoundFrequency = "annual" =>
         IF EarnsOnPositiveBalance
         THEN FinalBalanceUnder("monthly") > result.finalBalance
         ELSE FinalBalanceUnder("monthly") = result.finalBalance

\* a monthly-compounding run at 6 percent with a principal has returned after
\* more than a year, above what annual compounding gives
C17_Witness ==
  /\ Returned
  /\ inputs.apr = 6
  /\ inputs.compoundFrequency = "monthly"
  /\ inputs.principal > 0
  /\ totalMonths > MonthsPerYear
  /\ EarnsOnPositiveBalance
  /\ FinalBalanceUnder("annual") < result.finalBalance

\* 1 + r at PowScale, for a monthly rate r in units of 1 / RateScale
GrowthOf(r) == PowScale + (r * PowScale) \div RateScale

\* (1 + r)^n = target to the resolution of the monthly rate: r is not above
\* the exact root, and the next representable rate is above it
ReproducesAt(r, n, target) ==
  /\ PowFix(GrowthOf(r), n) <= target
  /\ PowFix(GrowthOf(r + 1), n) > target

\* C18: the monthly rate r of a run reproduces the nominal apr under the
\* chosen convention: monthly r = apr / 12, quarterly (1 + r)^3 - 1 = apr / 4,
\* annual (1 + r)^12 - 1 = apr, daily (1 + r)^12 = (1 + apr / 365)^365, that
\* is r = (1 + apr / 365)^(365 / 12) - 1.
C18_RateReproducesApr ==
  pc # "idle" =>
    LET r == monthlyRate
        apr == inputs.apr
        f == inputs.compoundFrequency
    IN /\ r >= 0
       /\ f = "monthly" => r * AprScale * 12 = apr * RateScale
       /\ f = "quarterly" =>
            ReproducesAt(r, 3, PowScale + (apr * PowScale) \div (AprScale * 4))
       /\ f = "annual" =>
            ReproducesAt(r, 12, PowScale + (apr * PowScale) \div AprScale)
       /\ f = "daily" =>
            ReproducesAt(r, 12,
                         PowFix(PowScale + (apr * PowScale) \div (AprScale * 365),
                                365))

\* a quarterly-compounding run at 24 percent has returned: its monthly rate is
\* below the 2 percent of monthly compounding and above the annual-compounding
\* rate, and the month's interest was earned at it
C18_Witness ==
  /\ Returned
  /\ inputs.apr = 24
  /\ inputs.compoundFrequency = "quarterly"
  /\ monthlyRate < effectiveMonthlyRate(24, "monthly")
  /\ monthlyRate > effectiveMonthlyRate(24, "annual")
  /\ result.totalInterest = (Unit * monthlyRate) \div RateScale
  /\ result.totalInterest > 0

\* C19: effectiveMonthlyRate(0, f) is exactly 0 for every compoundFrequency f,
\* so a run with apr = 0 has monthlyRate 0 and every monthly row it pushes
\* has interest exactly 0.
C19_ZeroAprZeroRate ==
  (pc # "idle" /\ inputs.apr = 0) =>
    /\ monthlyRate = 0
    /\ \A f \in CompoundFrequency : effectiveMonthlyRate(inputs.apr, f) = 0
    /\ \A i \in 1..Len(monthlyBreakdown) : monthlyBreakdown[i].interest = 0
    /\ Returned =>
         \A i \in 1..Len(result.monthlyBreakdown) :
           result.monthlyBreakdown[i].interest = 0

\* a daily-compounding run with apr 0, a principal and start-timed
\* contributions has returned more than twelve rows, all without interest
C19_Witness ==
  /\ Returned
  /\ inputs.apr = 0
  /\ inputs.compoundFrequency = "daily"
  /\ inputs.principal > 0
  /\ inputs.timing = "start"
  /\ monthlyContrib > 0
  /\ Len(result.monthlyBreakdown) > MonthsPerYear
  /\ Last(result.monthlyBreakdown).interest = 0
  /\ Last(result.monthlyBreakdown).startingBalance > inputs.principal

\* C20: the monthly contribution of a run is amount * 52 / 12 for weekly,
\* amount for monthly and amount / 12 for annual contributions; every monthly
\* row records exactly that amount as its contribution, so totalContributions
\* = totalMonths * that amount, whatever the apr, compounding or timing.
C20_MonthlyContribution ==
  pc # "idle" =>
    /\ inputs.contributionFrequency = "weekly" =>
         monthlyContrib * 12 = inputs.contribution * 52
    /\ inputs.contributionFrequency = "monthly" =>
         monthlyContrib = inputs.contribution
    /\ inputs.contributionFrequency = "annual" =>
         monthlyContrib * 12 = inputs.contribution
    /\ \A i \in 1..Len(monthlyBreakdown) :
         /\ monthlyBreakdown[i].contributions = monthlyContrib
         /\ monthlyBreakdown[i].cumulativeContributions = i * monthlyContrib
    /\ Returned =>
         /\ Len(result.monthlyBreakdown) = inputs.years * 12 + inputs.months
         /\ \A i \in 1..Len(result.monthlyBreakdown) :
              result.monthlyBreakdown[i].contributions = monthlyContrib
         /\ result.totalContributions
              = (inputs.years * 12 + inputs.months) * monthlyContrib

\* a run with weekly contributions, quarterly compounding at 12 percent and
\* start timing has returned after 23 months with 23 monthly amounts paid in
C20_Witness ==
  /\ Returned
  /\ inputs.contributionFrequency = "weekly"
  /\ inputs.contribution = Unit
  /\ inputs.compoundFrequency = "quarterly"
  /\ inputs.apr = 12
  /\ inputs.timing = "start"
  /\ totalMonths = 23
  /\ result.totalContributions = 23 * ((52 * Unit) \div 12)
  /\ result.totalInterest > 0

\* C26: across consecutive monthly rows cumulativeContributions and
\* cumulativeInterest never decrease, and each equals the sum of the per-row
\* contributions (respectively interest) of the rows up to and including it.
C26_CumulativeColumns ==
  \A i \in 1..Len(monthlyBreakdown) :
    LET row == monthlyBreakdown[i]
    IN /\ row.cumulativeContributions
            = SumOver(monthlyBreakdown, "contributions", 1, i)
       /\ row.cumulativeInterest
            = SumOver(monthlyBreakdown, "interest", 1, i)
       /\ i > 1 =>
            /\ row.cumulativeContributions
                 >= monthlyBreakdown[i - 1].cumulativeContributions
            /\ row.cumulativeInterest
                 >= monthlyBreakdown[i - 1].cumulativeInterest

\* three months with a contribution and interest in each were simulated
C26_Witness ==
  /\ Len(monthlyBreakdown) >= 3
  /\ \A i \in 1..3 : /\ monthlyBreakdown[i].contributions > 0
                      /\ monthlyBreakdown[i].interest > 0
  /\ monthlyBreakdown[3].cumulativeInterest > monthlyBreakdown[2].cumulativeInterest

\* C27: after every iteration of the monthly loop, for either timing, the row
\* just appended has endingBalance = principal + cumulativeContributions +
\* cumulativeInterest and endingBalance = startingBalance + contributions +
\* interest.
C27_RowBalanceIdentity ==
  (pc = "loop" /\ Len(monthlyBreakdown) >= 1) =>
    LET row == Last(monthlyBreakdown)
    IN /\ row.period = m - 1
       /\ row.endingBalance
            = inputs.principal + row.cumulativeContributions + row.cumulativeInterest
       /\ row.endingBalance
            = row.startingBalance + row.contributions + row.interest

\* the second end-timing iteration has just appended a row with a principal,
\* a contribution and interest
C27_Witness ==
  /\ pc = "loop"
  /\ Len(monthlyBreakdown) = 2
  /\ inputs.timing = "end"
  /\ inputs.principal > 0
  /\ Last(monthlyBreakdown).contributions > 0
  /\ Last(monthlyBreakdown).interest > 0

\* C28: the rows chain without gaps: the first monthly row and the first
\* yearly row start from principal, every later monthly (yearly) row starts
\* from the preceding monthly (yearly) row's endingBalance, and the last row's
\* endingBalance is finalBalance.
C28_RowsChain ==
  /\ \A i \in 1..Len(monthlyBreakdown) :
       monthlyBreakdown[i].startingBalance
         = IF i = 1 THEN inputs.principal
           ELSE monthlyBreakdown[i - 1].endingBalance
  /\ \A k \in 1..Len(yearlyBreakdown) :
       yearlyBreakdown[k].startingBalance
         = IF k = 1 THEN inputs.principal
           ELSE yearlyBreakdown[k - 1].endingBalance
  /\ Returned =>
       /\ result.monthlyBreakdown = monthlyBreakdown
       /\ result.yearlyBreakdown = yearlyBreakdown
       /\ Len(result.monthlyBreakdown) >= 1 =>
            /\ Last(result.monthlyBreakdown).endingBalance = result.finalBalance
            /\ Len(result.yearlyBreakdown) >= 1
            /\ Last(result.yearlyBreakdown).endingBalance = result.finalBalance

\* a growing run with a fee has returned with two yearly rows
C28_Witness ==
  /\ Returned
  /\ Len(result.yearlyBreakdown) = 2
  /\ inputs.principal > 0
  /\ FeeRateOf(inputs) > 0
  /\ result.yearlyBreakdown[2].startingBalance > inputs.principal
  /\ result.finalBalance > result.yearlyBreakdown[2].startingBalance

\* what calculate returns for the inputs in, computed from in alone
FreshResult(in) ==
  LET n == in.years * 12 + in.months
      path == Simulate(in.principal,
                       effectiveMonthlyContribution(in.contribution,
                                                    in.contributionFrequency),
                       MonthlyRateOf(in), in.timing, n)
  IN [scalars |-> ScalarsOf(in), monthlyBreakdown |-> path.monthlyBreakdown]

\* the same fields of a result that was returned
ReturnedFields(res) ==
  [scalars |-> [f \in DOMAIN ScalarsOf(NoInputs) |-> res[f]],
   monthlyBreakdown |-> res.monthlyBreakdown]

\* every returned result is the one its inputs alone determine, and equal
\* inputs were answered with equal results
ResultsFollowFromInputs ==
  /\ \A i, j \in 1..Len(history) :
       history[i].inputs = history[j].inputs
         => history[i].result = history[j].result
  /\ \A i \in 1..Len(history) :
       ReturnedFields(history[i].result) = FreshResult(history[i].inputs)
  /\ Returned => ReturnedFields(result) = FreshResult(inputs)

\* C21: calculate is deterministic and free of side effects: invocations with
\* equal inputs return equal results wherever they stand in a sequence of
\* invocations, every result is the one its inputs alone determine (nothing
\* left by another invocation is observed), and the inputs record is not
\* changed while an invocation runs.
C21_Deterministic ==
  /\ []ResultsFollowFromInputs
  /\ [][pc # "idle" => inputs' = inputs]_vars

\* the same inputs were invoked first and third, with a different, longer
\* invocation between them, and all three earned interest
C21_Witness ==
  /\ Len(history) = 3
  /\ history[1].inputs = history[3].inputs
  /\ history[2].inputs # history[1].inputs
  /\ Len(history[2].result.monthlyBreakdown) > Len(history[1].result.monthlyBreakdown)
  /\ history[1].result.totalInterest > 0
  /\ history[3].result.totalInterest > 0

\* the invocation ran its monthly loop exactly totalMonths times
RanTotalMonthsIterations ==
  /\ totalMonths = inputs.years * 12 + inputs.months
  /\ m = totalMonths + 1
  /\ Len(result.monthlyBreakdown) = totalMonths
  /\ Last(result.monthlyBreakdown).period = totalMonths

\* C22: for every input of the validated domain (total months in 1..720) an
\* invocation of calculate terminates, after exactly totalMonths iterations of
\* the monthly loop, and returns a result.
C22_Terminates ==
  /\ [](pc # "idle" => totalMonths \in 1..MaxTotalMonths)
  /\ (pc = "loop") ~> Returned
  /\ [](Returned => RanTotalMonthsIterations)

\* a run of the longest valid duration, 60 years, has returned 720 rows
C22_Witness ==
  /\ Returned
  /\ totalMonths = MaxTotalMonths
  /\ Len(result.monthlyBreakdown) = MaxTotalMonths
  /\ Len(result.yearlyBreakdown) = MaxTotalMonths \div MonthsPerYear

\* the returned inputs are within the validated domain
InValidatedDomain(in) ==
  /\ ~in.principal.nan /\ ~IsNegative(in.principal) /\ ~Exceeds(in.principal, MaxAmount)
  /\ ~in.contribution.nan /\ ~IsNegative(in.contribution)
  /\ ~Exceeds(in.contribution, MaxAmount)
  /\ ~(IsZero(in.principal) /\ IsZero(in.contribution))
  /\ ~in.apr.nan /\ ~IsNegative(in.apr) /\ ~Exceeds(in.apr, MaxAprPercent)
  /\ ~in.inflationRate.nan /\ ~IsNegative(in.inflationRate)
  /\ ~Exceeds(in.inflationRate, MaxInflationPercent)
  /\ ~in.annualFeeRate.nan /\ ~IsNegative(in.annualFeeRate)
  /\ ~Exceeds(in.annualFeeRate, MaxFeePercent)
  /\ in.years \in Nat
  /\ in.months \in 0..MaxExtraMonths
  /\ in.years * 12 + in.months \in 1..MaxTotalMonths

\* v is a number in [0, max]
WithinZeroAnd(v, max) == ~v.nan /\ ~IsNegative(v) /\ ~Exceeds(v, max)

\* the fields on which the form f breaks a constraint of the validated domain
BrokenFields(f) ==
  LET p == PrincipalOf(f)
      c == ContributionOf(f)
      yrs == YearsRawOf(f)
      mos == MonthsRawOf(f)
      yearsOk == IsInteger(yrs) /\ ~IsNegative(yrs) /\ Trim(f.years) # <<>>
      monthsOk == IsInteger(mos) /\ ~IsNegative(mos) /\ ~Exceeds(mos, 11)
  IN {field \in {"principal", "contribution", "apr", "inflationPercent",
                 "annualFeePercent", "years", "months", "duration"} :
        \/ field = "principal"
             /\ \/ ~WithinZeroAnd(p, MaxAmount)
                \/ WithinZeroAnd(c, MaxAmount) /\ IsZero(p) /\ IsZero(c)
        \/ field = "contribution" /\ ~WithinZeroAnd(c, MaxAmount)
        \/ field = "apr" /\ ~WithinZeroAnd(AprPctOf(f), 999)
        \/ field = "inflationPercent"
             /\ ~WithinZeroAnd(PercentOf(f.inflationPercent), 20)
        \/ field = "annualFeePercent"
             /\ ~WithinZeroAnd(PercentOf(f.annualFeePercent), 10)
        \/ field = "years" /\ ~yearsOk
        \/ field = "months" /\ ~monthsOk
        \/ field = "duration"
             /\ yearsOk /\ monthsOk
             /\ IntOf(yrs) * 12 + IntOf(mos) \notin 1..720}

IsGroupedAmount(text) ==
  /\ \A i \in 1..Len(text) : IsDigit(text[i]) \/ text[i] \in {",", " ", "."}
  /\ \E i \in 1..Len(text) : text[i] \in {",", " "}
  /\ \E i \in 1..Len(text) : IsDigit(text[i])
  /\ Cardinality({i \in 1..Len(text) : text[i] = "."}) <= 1

\* the full numeric value of such a text: its digits before the decimal
\* point as the whole part, its digits after it as the decimals
GroupedValue(text) ==
  LET dots == {i \in 1..Len(text) : text[i] = "."}
      dot == IF dots = {} THEN Len(text) + 1 ELSE CHOOSE i \in dots : TRUE
  IN Decimal(FALSE,
             WholeOf(SelectSeq(SubSeq(text, 1, dot - 1), IsDigit)),
             DecimalsOf(SelectSeq(SubSeq(text, dot + 1, Len(text)), IsDigit)))

PassesValidation(in) ==
  /\ in.principal >= 0 /\ in.contribution >= 0
  /\ in.principal \div Unit <= 1000000000
  /\ in.contribution \div Unit <= 1000000000
  /\ in.principal > 0 \/ in.contribution > 0
  /\ in.apr \in 0..999
  /\ in.inflationRate = <<>> \/ in.inflationRate[1] \in 0..20
  /\ in.annualFeeRate = <<>> \/ in.annualFeeRate[1] \in 0..10
  /\ in.years \in Nat
  /\ in.months \in 0..11
  /\ in.years * 12 + in.months \in 1..720

\* C24: every invocation of calculate made by the application (the debounced
\* form effect, the mount effect and the comparison view over stored
\* scenarios) receives inputs that have passed the validation layer; malformed
\* input never reaches the engine.
C24_OnlyValidatedInputs ==
  (pc # "idle" /\ caller # "none") => PassesValidation(inputs)

\* the selection holds at most 2 ids and none twice
SelectionWellFormed ==
  /\ Len(compareIds) <= 2
  /\ Cardinality(Range(compareIds)) = Len(compareIds)

\* what a toggle of id makes of the selection sel
ToggleOutcome(sel, id) ==
  IF \E i \in 1..Len(sel) : sel[i] = id
  THEN LET Other(x) == x # id IN SelectSeq(sel, Other)
  ELSE IF Len(sel) < 2 THEN sel \o <<id>>
  ELSE sel

\* C29: after any sequence of compare toggles, scenario saves, duplicates and
\* deletes, compareIds holds at most 2 ids and never the same id twice;
\* toggling a selected id removes it, toggling an unselected id adds it only
\* when fewer than 2 are selected, and otherwise leaves the selection
\* unchanged.
C29_CompareSelection ==
  /\ []SelectionWellFormed
  /\ [][\A id \in AllIds :
          handleToggleCompareId(id) => compareIds' = ToggleOutcome(compareIds, id)]_vars

\* two scenarios are selected, one of them created in this session, while a
\* third one is left out
C29_Witness ==
  /\ Len(compareIds) = 2
  /\ Len(scenarios) >= 3
  /\ \E i \in 1..2 : compareIds[i] \in 1..MaxIds
  /\ IdsOf(scenarios) \ Range(compareIds) # {}

\* the selected ids whose scenario is gone
StaleIds == Range(compareIds) \ IdsOf(scenarios)

\* the comparison view is being computed
Comparing == caller \in {"compareA", "compareB"}

\* C30: compare mode is switched on only when exactly 2 scenarios are
\* selected; after a selected scenario is deleted its id is removed from
\* compareIds; whenever fewer than 2 ids remain selected compare mode is
\* switched off; and the comparison view is only ever computed over two
\* scenarios that still exist.
C30_CompareMode ==
  /\ [][(~compareMode /\ compareMode') =>
          (Len(compareIds) = 2 /\ Cardinality(Range(compareIds) \cap IdsOf(scenarios)) = 2)]_vars
  /\ \A id \in AllIds : (id \in StaleIds) ~> (id \notin Range(compareIds))
  /\ (compareMode /\ Len(compareIds) < 2) ~> ~compareMode
  /\ [](Comparing =>
          /\ compareMode
          /\ Len(compareIds) = 2
          /\ Cardinality(Range(compareIds) \cap IdsOf(scenarios)) = 2
          /\ pc # "idle" =>
               inputs = Find(scenarios,
                             compareIds[IF caller = "compareA" THEN 1 ELSE 2]).inputs)

\* in compare mode, one of the two selected scenarios has just been deleted
C30_Witness ==
  /\ compareMode
  /\ Len(compareIds) = 2
  /\ Cardinality(StaleIds) = 1
  /\ ~rendered

====
